---- MODULE Spec2Model ----
(***************************************************************************)
(* A model of vbrtool.py: a batch tool that loads Mikado VBar .vbr         *)
(* register banks, derives virtual registers, and prints, compares or      *)
(* copies a selected group of registers.                                   *)
(*                                                                         *)
(* Text is modelled as sequences of one-character strings, so that the     *)
(* decimal formatting done by write_vbr and the parsing done by read_vbr   *)
(* are real conversions.  A file is a sequence of lines.  A Python value   *)
(* is a record [t, i, s]: an int (i), a str (s) or a float (i holds the    *)
(* value in thousandths, exact for the gearing registers modelled here,    *)
(* whose fractional register stays below 100).                             *)
(***************************************************************************)
EXTENDS Integers, Sequences, FiniteSets, TLC

VARIABLES
    args,       \* the parsed command line (argparse namespace)
    disk,       \* file name -> sequence of lines, for the files that exist
    values,     \* file name -> bank, the global `values`
    def_regs,   \* keys of the global `def_regs`
    raw_regs,   \* the global `raw_regs`
    source,     \* the global `source` (copy source bank)
    regs,       \* the global `regs` (selected group)
    pc,         \* position in the main program
    idx,        \* position of the running `for name in files` loop
    out,        \* lines printed to stdout
    err,        \* the uncaught exception that ended the run, if any
    vbr_regs,   \* the local `vbr_regs` of the latest read_vbr call
    last_read,  \* history: the name passed to the latest read_vbr call
    writes,     \* history: names passed to write_vbr, in call order
    disk0,      \* history: the disk when the run started
    loaded,     \* history: `values` when the operation started
    run,        \* which invocation of the tool this is
    first,      \* history: memory and disk at the end of the first run
    fmt_reg,    \* the register whose reg_format entry is called
    fmt_val,    \* the `val` argument of that call
    fmt_res     \* what the call returned

\* the arguments and the result of a call of a reg_format entry
fmt_vars == <<fmt_reg, fmt_val, fmt_res>>

\* the globals of the main program and the history kept about a run
main_vars == <<args, disk, values, def_regs, raw_regs, source, regs, pc, idx,
               out, err, vbr_regs, last_read, writes, disk0, loaded, run,
               first>>

vars == <<args, disk, values, def_regs, raw_regs, source, regs, pc, idx, out,
          err, vbr_regs, last_read, writes, disk0, loaded, run, first,
          fmt_reg, fmt_val, fmt_res>>

---------------------------------------------------------------------------
(* Bounds of the model *)

MaxFiles == 2
MaxFlags == 2
MaxCode == 12

---------------------------------------------------------------------------
(* Python values *)

IntV(n)   == [t |-> "int",   i |-> n, s |-> <<>>]
StrV(str) == [t |-> "str",   i |-> 0, s |-> str]
FloatV(m) == [t |-> "float", i |-> m, s |-> <<>>]
NoneV     == [t |-> "none",  i |-> 0, s |-> <<>>]

\* no call has returned yet
NoCall    == [t |-> "nocall", i |-> 0, s |-> <<>>]

EmptyBank == [r \in {} |-> NoneV]

\* regs[k] = v on a dict
Put(m, k, v) == [x \in (DOMAIN m) \cup {k} |-> IF x = k THEN v ELSE m[x]]

Range(seq) == { seq[k] : k \in 1..Len(seq) }

---------------------------------------------------------------------------
(* Decimal text *)

Digits == <<"0", "1", "2", "3", "4", "5", "6", "7", "8", "9">>

RECURSIVE NatToStr(_)
NatToStr(n) ==
    IF n < 10 THEN <<Digits[n + 1]>>
    ELSE NatToStr(n \div 10) \o <<Digits[(n % 10) + 1]>>

\* '%d' / '%s' of an int, sign dropped
IntToStrNoSign(n) == IF n < 0 THEN NatToStr(-n) ELSE NatToStr(n)

\* '%d' % n and '%s' % n for an int n
IntToStr(n) == IF n < 0 THEN <<"-">> \o NatToStr(-n) ELSE NatToStr(n)

IsDigit(c) == \E d \in 1..10 : Digits[d] = c

DigitVal(c) == (CHOOSE d \in 1..10 : Digits[d] = c) - 1

\* the regular expression [-]?[0-9]+ , anchored by the quotes around it
IsIntStr(str) ==
    LET body == IF Len(str) > 0 /\ str[1] = "-" THEN Tail(str) ELSE str
    IN  Len(body) > 0 /\ \A k \in 1..Len(body) : IsDigit(body[k])

RECURSIVE StrToNat(_)
StrToNat(str) ==
    IF Len(str) = 0 THEN 0
    ELSE 10 * StrToNat(SubSeq(str, 1, Len(str) - 1)) + DigitVal(str[Len(str)])

\* int(text) on text matched by [-]?[0-9]+
StrToInt(str) == IF str[1] = "-" THEN -StrToNat(Tail(str)) ELSE StrToNat(str)

\* '%s' % value as write_vbr formats a register value
PyStr(v) == IF v.t = "int" THEN IntToStr(v.i) ELSE v.s

---------------------------------------------------------------------------
(* Lines of a .vbr file *)

\* <VALUE Register="r" Value="v"/>, with r and v the text between the quotes
TagLine(r, v) == [kind |-> "tag", reg |-> r, val |-> v, text |-> ""]
TextLine(txt) == [kind |-> "text", reg |-> <<>>, val |-> <<>>, text |-> txt]

\* parser.search(line) of read_vbr
Matches(line) == line.kind = "tag" /\ IsIntStr(line.reg) /\ IsIntStr(line.val)


---------------------------------------------------------------------------
(* Register groups *)

basic_regs == << 1091, 72, 41, 33, 30, 40, 35, 79, 50, 80, 71 >>
main_regs  == << 72, 41, 33, 30, 40, 35, 53, 68, 77, 46, 228 >>
tail_regs  == << 50, 79, 28, 75, 59, 51, 82, 10, 11, 54, 56, 55, 58, 6, 229 >>
gov_regs   == << 80, 70, 71, 93, 91, 92, 94 >>
exp_regs   == << 1091, 72, 41, 33, 30, 40, 35, 53, 68, 77, 46, 228,
                 50, 79, 28, 75, 59, 51, 82, 10, 11, 54, 56, 55, 58, 6, 229,
                 80, 70, 71, 93, 91, 92, 94 >>

main_setup_regs == <<
    204, 205, 207,
    52, 48,
    221,
    200, 20, 21, 16,
    201, 22, 23, 17,
    202, 24, 25, 18,
    203, 26, 27, 19,
    0, 1, 2, 3,
    36, 37, 38, 39 >>

tail_setup_regs == << 223, 222, 206, 5, 7, 8 >>

gov_setup_regs == <<
    80, 70, 71, 45, 90, 88, 89, 91, 92, 94, 93,
    231, 232,
    83, 84, 85, 86, 87, 2331, 240,
    236, 239, 234, 2341, 2342, 2343 >>

rx_setup_regs == <<
    219, 210, 211, 212,
    213, 214, 215, 216,
    236, 239 >>

setup_regs == <<
    219, 210, 211, 212,
    213, 214, 215, 216,
    236, 239,
    204, 205, 207,
    52, 48,
    221,
    200, 20, 21, 16,
    201, 22, 23, 17,
    202, 24, 25, 18,
    203, 26, 27, 19,
    0, 1, 2, 3,
    36, 37, 38, 39,
    223, 222, 206, 5, 7, 8,
    80, 70, 71, 45, 90, 88, 89, 91, 92, 94, 93,
    231, 232,
    83, 84, 85, 86, 87, 2331, 240,
    236, 239, 234, 2341, 2342, 2343 >>

all_regs == <<
    1091,
    72, 41, 33, 30, 40, 35, 53, 68, 77, 46, 228,
    50, 79, 28, 75, 59, 51, 82, 10, 11, 54, 56, 55, 58, 6, 229,
    80, 70, 71, 93, 91, 92, 94, 45, 90, 88, 89,
    234, 2341, 2342, 2343,
    231, 232, 2331, 240, 241,
    83, 84, 85, 86, 87,
    219, 210, 211, 212, 213, 214, 215, 216, 236, 239,
    204, 205, 207, 52, 48, 221,
    200, 20, 21, 16,
    201, 22, 23, 17,
    202, 24, 25, 18,
    203, 26, 27, 19,
    0, 1, 2, 3,
    36, 37, 38, 39,
    223, 222, 206, 5, 7, 8 >>

---------------------------------------------------------------------------
(* Deriving the virtual registers *)

\* convert_regs with the two version nibbles exchanged
convert_regs_swapped(bank) ==
    IF ~({109, 499} \subseteq DOMAIN bank)
    THEN [ok |-> FALSE, regs |-> bank]
    ELSE
    LET r1 == Put(bank, 1091,
                  StrV(IntToStr(bank[109].i % 16) \o <<".">>
                       \o IntToStr((bank[109].i \div 16) % 16) \o <<".">>
                       \o IntToStr(bank[499].i)))
    IN  IF ~({233, 235} \subseteq DOMAIN r1)
        THEN [ok |-> FALSE, regs |-> r1]
        ELSE
        LET r2 == Put(r1, 2331, FloatV(100 * r1[233].i + r1[235].i))
        IN  IF 234 \notin DOMAIN r2
            THEN [ok |-> FALSE, regs |-> r2]
            ELSE
            LET r3 == Put(r2, 2341, IntV((r2[234].i \div 8) % 2))
                r4 == Put(r3, 2342, IntV((r3[234].i \div 32) % 2))
                r5 == Put(r4, 2343, IntV((r4[234].i \div 2) % 4))
            IN  [ok |-> TRUE, regs |-> r5]

(* convert_regs(file, regs).  The statements run in order and the first   *)
(* lookup of an absent register raises KeyError: ok is FALSE and regs is  *)
(* the dict as the raise leaves it.  (x >> k) & m on Python's unbounded   *)
(* two's-complement ints is floor division and a non-negative modulus.    *)
convert_regs(bank) ==
    IF ~({109, 499} \subseteq DOMAIN bank)
    THEN [ok |-> FALSE, regs |-> bank]
    ELSE
    LET r1 == Put(bank, 1091,
                  StrV(IntToStr((bank[109].i \div 16) % 16) \o <<".">>
                       \o IntToStr(bank[109].i % 16) \o <<".">>
                       \o IntToStr(bank[499].i)))
    IN  IF ~({233, 235} \subseteq DOMAIN r1)
        THEN [ok |-> FALSE, regs |-> r1]
        ELSE
        LET r2 == Put(r1, 2331, FloatV(100 * r1[233].i + r1[235].i))
        IN  IF 234 \notin DOMAIN r2
            THEN [ok |-> FALSE, regs |-> r2]
            ELSE
            LET r3 == Put(r2, 2341, IntV((r2[234].i \div 8) % 2))
                r4 == Put(r3, 2342, IntV((r3[234].i \div 32) % 2))
                r5 == Put(r4, 2343, IntV((r4[234].i \div 2) % 4))
            IN  [ok |-> TRUE, regs |-> r5]

---------------------------------------------------------------------------
(* Reading and writing a bank *)

\* the `for line in file` loop of read_vbr, from line k on
RECURSIVE ParseLines(_, _, _)
ParseLines(lines, k, bank) ==
    IF k > Len(lines) THEN bank
    ELSE IF Matches(lines[k])
         THEN ParseLines(lines, k + 1,
                         Put(bank, StrToInt(lines[k].reg),
                             IntV(StrToInt(lines[k].val))))
         ELSE ParseLines(lines, k + 1, bank)

\* read_vbr that also records the derived registers as seen
read_vbr_seen_derived(name, files) ==
    IF name \notin DOMAIN files
    THEN [ok |-> FALSE, err |-> "IOError", regs |-> EmptyBank, seen |-> {}]
    ELSE LET parsed == ParseLines(files[name], 1, EmptyBank)
             conv   == convert_regs(parsed)
         IN  [ok   |-> conv.ok,
              err  |-> IF conv.ok THEN "" ELSE "KeyError",
              regs |-> conv.regs,
              seen |-> DOMAIN conv.regs]

(* read_vbr(name) on the disk `files`: ok, the exception raised if any,   *)
(* the local dict vbr_regs as the call leaves it, and the register IDs    *)
(* the call adds to def_regs.                                             *)
read_vbr(name, files) ==
    IF name \notin DOMAIN files
    THEN [ok |-> FALSE, err |-> "IOError", regs |-> EmptyBank, seen |-> {}]
    ELSE LET parsed == ParseLines(files[name], 1, EmptyBank)
             conv   == convert_regs(parsed)
         IN  [ok   |-> conv.ok,
              err  |-> IF conv.ok THEN "" ELSE "KeyError",
              regs |-> conv.regs,
              seen |-> DOMAIN parsed]

\* sorted(keys) on a set of ints
RECURSIVE Sorted(_)
Sorted(keys) ==
    IF keys = {} THEN <<>>
    ELSE LET m == CHOOSE x \in keys : \A y \in keys : x <= y
         IN  <<m>> \o Sorted(keys \ {m})

\* write_vbr that keeps only register IDs 0..999
write_vbr_nonneg(bank) ==
    LET keys == Sorted({ r \in DOMAIN bank : r >= 0 /\ r < 1000 })
    IN  <<TextLine("<REGISTER>")>>
        \o [k \in 1..Len(keys) |->
               TagLine(IntToStr(keys[k]), PyStr(bank[keys[k]]))]
        \o <<TextLine("</REGISTER>")>>

\* the text write_vbr(name, regs) writes to the file
write_vbr(bank) ==
    LET keys == Sorted({ r \in DOMAIN bank : r < 1000 })
    IN  <<TextLine("<REGISTER>")>>
        \o [k \in 1..Len(keys) |->
               TagLine(IntToStr(keys[k]), PyStr(bank[keys[k]]))]
        \o <<TextLine("</REGISTER>")>>

---------------------------------------------------------------------------
(* The operations *)

\* the inner `for file in files` loop of diff_regs, from file k on:
\* "same" (no row), "row" (row printed, break) or "KeyError"
RECURSIVE DiffFiles(_, _, _, _, _)
DiffFiles(reg, files, k, val, vals) ==
    IF k > Len(files) THEN "same"
    ELSE LET bank == vals[files[k]]
         IN  IF val = NoneV
             THEN DiffFiles(reg, files, k + 1,
                            IF reg \in DOMAIN bank THEN bank[reg] ELSE NoneV,
                            vals)
             ELSE IF reg \notin DOMAIN bank THEN "KeyError"
             ELSE IF val # bank[reg] THEN "row"
             ELSE DiffFiles(reg, files, k + 1, val, vals)

Row(reg) == [kind |-> "row", reg |-> reg]
Banner(kind) == [kind |-> kind, reg |-> 0]

(* diff_regs(regs): the lines printed and the exception raised, if any.  *)
(* The `for reg in regs` loop runs the inner loop on each entry in turn   *)
(* and ends at the first entry whose inner loop raises.                   *)
diff_regs(group, files, vals) ==
    LET turn   == [k \in 1..Len(group) |->
                      DiffFiles(group[k], files, 1, NoneV, vals)]
        raised == { k \in 1..Len(group) : turn[k] = "KeyError" }
        last   == IF raised = {} THEN Len(group)
                  ELSE (CHOOSE k \in raised : \A j \in raised : k <= j) - 1
        shown  == { k \in 1..last : turn[k] = "row" }
        rows   == Sorted(shown)
    IN  [out |-> <<Banner("names")>>
                 \o [j \in 1..Len(rows) |-> Row(group[rows[j]])],
         err |-> IF raised = {} THEN "" ELSE "KeyError"]

\* print_regs(regs): the lines printed
print_regs(group) ==
    <<Banner("names")>> \o [k \in 1..Len(group) |-> Row(group[k])]

(* The first loop of copy_regs on the entries of the group that pass     *)
(* `if reg in src`, from entry k of them on: each is stored into the bank *)
(* of every name of `files`.                                              *)
RECURSIVE CopyFrom(_, _, _, _, _)
CopyFrom(src, found, k, files, vals) ==
    IF k > Len(found) THEN vals
    ELSE CopyFrom(src, found, k + 1, files,
                  [n \in DOMAIN vals |->
                      IF n \in Range(files)
                      THEN Put(vals[n], found[k], src[found[k]])
                      ELSE vals[n]])

\* copy_regs that copies every register of the source
copy_regs_whole_source(src, group, files, vals) ==
    CopyFrom(src, Sorted(DOMAIN src), 1, files, vals)

\* the in-memory overwrites of copy_regs(src, regs)
copy_regs(src, group, files, vals) ==
    LET InSource(reg) == reg \in DOMAIN src
    IN  CopyFrom(src, SelectSeq(group, InSource), 1, files, vals)

\* each distinct name once, in order of first occurrence
RECURSIVE Distinct(_)
Distinct(seq) ==
    IF seq = <<>> THEN <<>>
    ELSE LET front == Distinct(SubSeq(seq, 1, Len(seq) - 1))
         IN  IF seq[Len(seq)] \in Range(front) THEN front
             ELSE Append(front, seq[Len(seq)])

\* copy_regs that writes each loaded bank once (`for name in values`)
write_targets_distinct(files) == Distinct(files)

\* the names the second loop of copy_regs writes, in order
write_targets(files) == files

---------------------------------------------------------------------------
(* The command line *)

NoFile == "-"

\* which of copy_regs, diff_regs, print_regs the main program calls
Mode(a) ==
    IF a.copy # NoFile THEN "copy"
    ELSE IF a.diff THEN "diff"
    ELSE "print"

\* the if/elif chain that picks the register group
SelectRegs(a, raw) ==
    IF      "all"        \in a.sel THEN all_regs
    ELSE IF "raw"        \in a.sel THEN raw
    ELSE IF "main"       \in a.sel THEN main_regs
    ELSE IF "tail"       \in a.sel THEN tail_regs
    ELSE IF "gov"        \in a.sel THEN gov_regs
    ELSE IF "exp"        \in a.sel THEN exp_regs
    ELSE IF "main_setup" \in a.sel THEN main_setup_regs
    ELSE IF "tail_setup" \in a.sel THEN tail_setup_regs
    ELSE IF "gov_setup"  \in a.sel THEN gov_setup_regs
    ELSE IF "rx_setup"   \in a.sel THEN rx_setup_regs
    ELSE IF "setup"      \in a.sel THEN setup_regs
    ELSE basic_regs

---------------------------------------------------------------------------
(* Inputs: the bank files on disk and the command lines tried *)

Tag(r, v) == TagLine(IntToStr(r), IntToStr(v))

Bank0 == <<
    TextLine("<REGISTER>"),
    Tag(72, 4), Tag(41, 10), Tag(80, 8),
    Tag(109, 18), Tag(499, 3),
    Tag(233, 85), Tag(235, 7), Tag(234, 8),
    TextLine("</REGISTER>") >>

\* no envelope, a comment, a repeated register, a leading zero, a value
\* the pattern rejects, a negative register and a negative value, and
\* registers numbered 1000 and above in the file itself
Bank1 == <<
    TextLine("# bank 1"),
    Tag(80, 2),
    Tag(109, 83), Tag(499, 12),
    Tag(233, 100), Tag(235, 0), Tag(234, 38),
    TagLine(<<"8", "0">>, <<"0", "7">>),
    TagLine(<<"7", "0">>, <<"1", ".", "5">>),
    Tag(41, 12),
    Tag(2341, 0), Tag(1500, 9),
    TagLine(<<"-", "1">>, <<"-", "5">>) >>

\* a register no other file has
Bank2 == <<
    TextLine("<REGISTER>"),
    Tag(5, 0), Tag(80, 8),
    Tag(109, 18), Tag(499, 3),
    Tag(233, 85), Tag(235, 7), Tag(234, 8),
    TextLine("</REGISTER>") >>

VersionOnly == << Tag(109, 18), Tag(499, 3) >>
NoVersion   == << Tag(499, 3), Tag(233, 85), Tag(235, 7), Tag(234, 8) >>
NoFlags     == << Tag(109, 18), Tag(499, 3), Tag(233, 85), Tag(235, 7) >>

InputNames  == { "bank0.vbr", "bank1.vbr", "ver.vbr" }
SourceNames == { "bank1.vbr", "bank2.vbr", "nover.vbr", "noflags.vbr",
                 "missing.vbr" }

InitialDisk ==
    [n \in (InputNames \cup SourceNames) \ {"missing.vbr"} |->
        CASE n = "bank0.vbr"   -> Bank0
          [] n = "bank1.vbr"   -> Bank1
          [] n = "bank2.vbr"   -> Bank2
          [] n = "ver.vbr"     -> VersionOnly
          [] n = "nover.vbr"   -> NoVersion
          [] n = "noflags.vbr" -> NoFlags]

UsedFlags == { "all", "raw", "gov" }

FileLists == UNION { [1..n -> InputNames] : n \in 0..MaxFiles }

ArgSet ==
    [ version : BOOLEAN,
      print   : BOOLEAN,
      diff    : BOOLEAN,
      copy    : {NoFile} \cup SourceNames,
      sel     : { f \in SUBSET UsedFlags : Cardinality(f) <= MaxFlags },
      files   : FileLists ]

---------------------------------------------------------------------------
(* The main program *)

NoValues   == [n \in {} |-> EmptyBank]
NoSnapshot == [values |-> NoValues, disk |-> NoValues]

Init ==
    /\ args \in ArgSet
    /\ disk = InitialDisk
    /\ values = NoValues
    /\ def_regs = {}
    /\ raw_regs = <<>>
    /\ source = EmptyBank
    /\ regs = basic_regs
    /\ pc = "start"
    /\ idx = 1
    /\ out = <<>>
    /\ err = ""
    /\ vbr_regs = EmptyBank
    /\ last_read = NoFile
    /\ writes = <<>>
    /\ disk0 = InitialDisk
    /\ loaded = NoValues
    /\ run = 1
    /\ first = NoSnapshot
    /\ fmt_reg = 0
    /\ fmt_val = 0
    /\ fmt_res = NoCall

\* --version, and the help printed when no file is given
Startup ==
    /\ pc = "start"
    /\ IF args.version
       THEN /\ out' = Append(out, Banner("version"))
            /\ pc' = "done"
       ELSE IF args.files = <<>>
       THEN /\ out' = Append(out, Banner("help"))
            /\ pc' = "done"
       ELSE /\ out' = out
            /\ pc' = "read"
    /\ idx' = 1
    /\ UNCHANGED fmt_vars
    /\ UNCHANGED <<args, disk, values, def_regs, raw_regs, source, regs, err,
                   vbr_regs, last_read, writes, disk0, loaded, run, first>>

\* one turn of `for name in files: values[name] = read_vbr(name)`
ReadInput ==
    /\ pc = "read"
    /\ LET name == args.files[idx]
           r    == read_vbr(name, disk)
       IN  /\ def_regs' = def_regs \cup r.seen
           /\ vbr_regs' = r.regs
           /\ last_read' = name
           /\ IF r.ok
              THEN /\ values' = Put(values, name, r.regs)
                   /\ err' = err
                   /\ IF idx = Len(args.files)
                      THEN pc' = "sort" /\ idx' = 1
                      ELSE pc' = "read" /\ idx' = idx + 1
              ELSE /\ values' = values
                   /\ err' = r.err
                   /\ pc' = "failed"
                   /\ idx' = idx
    /\ UNCHANGED fmt_vars
    /\ UNCHANGED <<args, disk, raw_regs, source, regs, out, writes, disk0,
                   loaded, run, first>>

\* raw_regs = sorted(def_regs)
SortRaw ==
    /\ pc = "sort"
    /\ raw_regs' = Sorted(def_regs)
    /\ pc' = IF args.copy # NoFile THEN "source" ELSE "select"
    /\ UNCHANGED fmt_vars
    /\ UNCHANGED <<args, disk, values, def_regs, source, regs, idx, out, err,
                   vbr_regs, last_read, writes, disk0, loaded, run, first>>

\* source = read_vbr(args.copy[0])
ReadSource ==
    /\ pc = "source"
    /\ LET r == read_vbr(args.copy, disk)
       IN  /\ def_regs' = def_regs \cup r.seen
           /\ vbr_regs' = r.regs
           /\ last_read' = args.copy
           /\ IF r.ok
              THEN source' = r.regs /\ err' = err /\ pc' = "select"
              ELSE source' = source /\ err' = r.err /\ pc' = "failed"
    /\ UNCHANGED fmt_vars
    /\ UNCHANGED <<args, disk, values, raw_regs, regs, idx, out, writes,
                   disk0, loaded, run, first>>

\* the selection chain
Select ==
    /\ pc = "select"
    /\ regs' = SelectRegs(args, raw_regs)
    /\ loaded' = values
    /\ pc' = "operate"
    /\ UNCHANGED fmt_vars
    /\ UNCHANGED <<args, disk, values, def_regs, raw_regs, source, idx, out,
                   err, vbr_regs, last_read, writes, disk0, run, first>>

PrintRegs ==
    /\ pc = "operate"
    /\ Mode(args) = "print"
    /\ out' = out \o print_regs(regs)
    /\ pc' = "done"
    /\ UNCHANGED fmt_vars
    /\ UNCHANGED <<args, disk, values, def_regs, raw_regs, source, regs, idx,
                   err, vbr_regs, last_read, writes, disk0, loaded, run, first>>

DiffRegs ==
    /\ pc = "operate"
    /\ Mode(args) = "diff"
    /\ LET d == diff_regs(regs, args.files, values)
       IN  /\ out' = out \o d.out
           /\ err' = d.err
           /\ pc' = IF d.err = "" THEN "done" ELSE "failed"
    /\ UNCHANGED fmt_vars
    /\ UNCHANGED <<args, disk, values, def_regs, raw_regs, source, regs, idx,
                   vbr_regs, last_read, writes, disk0, loaded, run, first>>

\* the first loop of copy_regs
CopyRegs ==
    /\ pc = "operate"
    /\ Mode(args) = "copy"
    /\ values' = copy_regs(source, regs, args.files, values)
    /\ pc' = "write"
    /\ idx' = 1
    /\ UNCHANGED fmt_vars
    /\ UNCHANGED <<args, disk, def_regs, raw_regs, source, regs, out, err,
                   vbr_regs, last_read, writes, disk0, loaded, run, first>>

\* one turn of `for name in files: write_vbr(name, values[name])`
WriteVbr ==
    /\ pc = "write"
    /\ LET targets == write_targets(args.files)
           name    == targets[idx]
       IN  /\ disk' = Put(disk, name, write_vbr(values[name]))
           /\ writes' = Append(writes, name)
           /\ IF idx = Len(targets)
              THEN pc' = "done" /\ idx' = 1
              ELSE pc' = "write" /\ idx' = idx + 1
    /\ UNCHANGED fmt_vars
    /\ UNCHANGED <<args, values, def_regs, raw_regs, source, regs, out, err,
                   vbr_regs, last_read, disk0, loaded, run, first>>

\* open(name, "w") raises: the run ends, the file is left as it was
WriteFails ==
    /\ pc = "write"
    /\ err' = "IOError"
    /\ pc' = "failed"
    /\ UNCHANGED fmt_vars
    /\ UNCHANGED <<args, disk, values, def_regs, raw_regs, source, regs, idx,
                   out, vbr_regs, last_read, writes, disk0, loaded, run, first>>

\* the same command line is run once more on the files the first run left
Rerun ==
    /\ pc = "done"
    /\ run = 1
    /\ writes # <<>>
    /\ first' = [values |-> values, disk |-> disk]
    /\ run' = 2
    /\ disk0' = disk
    /\ values' = NoValues
    /\ def_regs' = {}
    /\ raw_regs' = <<>>
    /\ source' = EmptyBank
    /\ regs' = basic_regs
    /\ pc' = "start"
    /\ idx' = 1
    /\ out' = <<>>
    /\ vbr_regs' = EmptyBank
    /\ last_read' = NoFile
    /\ writes' = <<>>
    /\ loaded' = NoValues
    /\ UNCHANGED fmt_vars
    /\ UNCHANGED <<args, disk, err>>

Next ==
    \/ Startup
    \/ ReadInput
    \/ SortRaw
    \/ ReadSource
    \/ Select
    \/ PrintRegs
    \/ DiffRegs
    \/ CopyRegs
    \/ WriteVbr
    \/ WriteFails
    \/ Rerun

Spec == Init /\ [][Next]_vars

---------------------------------------------------------------------------
(* The enumerated decoders of the format table.  A decoder returns a      *)
(* Python value: a string (its text kept as a TLA+ string) or None.       *)

format_gov_type(val) ==
    IF val = -1 THEN StrV("disabled")
    ELSE IF val = 2 THEN StrV("expert/fixed/off")
    ELSE IF val = 4 THEN StrV("expert/collective-output")
    ELSE IF val = 5 THEN StrV("expert/throttle curve only")
    ELSE IF val = 7 THEN StrV("nitro")
    ELSE IF val = 8 THEN StrV("elec")
    ELSE IF val = 10 THEN StrV("expert/fixed/on")
    ELSE StrV("<undef>")

\* the chain has no else branch: the function falls off its end
format_gov_output(val) ==
    IF val = 0 THEN StrV("servo")
    ELSE IF val = 1 THEN StrV("ch4")
    ELSE IF val = 2 THEN StrV("esc")
    ELSE IF val = 3 THEN StrV("none")
    ELSE NoneV

format_receiver_type(val) ==
    IF val = 0 THEN StrV("Separate PPM")
    ELSE IF val = 1 THEN StrV("Spektrum SAT")
    ELSE IF val = 2 THEN StrV("CPPM")
    ELSE IF val = 6 THEN StrV("SBUS")
    ELSE IF val = 7 THEN StrV("Spektrum HiRes")
    ELSE IF val = 8 THEN StrV("UDI")
    ELSE IF val = 9 THEN StrV("Spektrum Digital")
    ELSE IF val = 10 THEN StrV("Spektrum DSM-X 11ms")
    ELSE IF val = 11 THEN StrV("Spektrum DSM-X 22ms")
    ELSE StrV("<invalid>")

format_servo_type(val) ==
    IF val = 0 THEN StrV("1520us")
    ELSE IF val = 1 THEN StrV("760us")
    ELSE IF val = 2 THEN StrV("960us")
    ELSE StrV("<invalid>")

format_main_style(val) ==
    IF val = 2 THEN StrV("Vivid")
    ELSE IF val = 3 THEN StrV("Medium")
    ELSE IF val = 4 THEN StrV("Precise")
    ELSE IF val = 5 THEN StrV("Mechanical")
    ELSE StrV("<invalid>")

\* the registers whose reg_format entry is an enumerated decoder
EnumRegs == { 72, 80, 219, 223, 2343 }

\* reg_format[reg](file, reg, val), for the registers of EnumRegs
reg_format(reg, val) ==
    CASE reg = 72   -> format_main_style(val)
      [] reg = 80   -> format_gov_type(val)
      [] reg = 219  -> format_receiver_type(val)
      [] reg = 223  -> format_servo_type(val)
      [] reg = 2343 -> format_gov_output(val)

\* the integers a decoder is called with
Codes == (0 - MaxCode)..MaxCode

\* no invocation of the tool is running: the state of Init for the empty
\* command line, and a decoder about to be called with an integer
DecodeInit ==
    /\ args = [version |-> FALSE, print |-> FALSE, diff |-> FALSE,
               copy |-> NoFile, sel |-> {}, files |-> <<>>]
    /\ disk = InitialDisk
    /\ values = NoValues
    /\ def_regs = {}
    /\ raw_regs = <<>>
    /\ source = EmptyBank
    /\ regs = basic_regs
    /\ pc = "start"
    /\ idx = 1
    /\ out = <<>>
    /\ err = ""
    /\ vbr_regs = EmptyBank
    /\ last_read = NoFile
    /\ writes = <<>>
    /\ disk0 = InitialDisk
    /\ loaded = NoValues
    /\ run = 1
    /\ first = NoSnapshot
    /\ fmt_reg \in EnumRegs
    /\ fmt_val \in Codes
    /\ fmt_res = NoCall

\* the call reg_format[reg](file, reg, val) made by format_reg
Decode ==
    /\ fmt_res.t = "nocall"
    /\ fmt_res' = reg_format(fmt_reg, fmt_val)
    /\ UNCHANGED <<fmt_reg, fmt_val>>
    /\ UNCHANGED main_vars

DecodeNext == Decode

DecodeSpec == DecodeInit /\ [][DecodeNext]_vars

---------------------------------------------------------------------------
(* Vocabulary of the properties *)

\* the entries of a bank with a raw register ID
RawPart(bank) == [r \in { x \in DOMAIN bank : x < 1000 } |-> bank[r]]

DerivedIds == { 1091, 2331, 2341, 2342, 2343 }
RequiredIds == { 109, 499, 233, 235, 234 }

\* the positions of the lines of a file that carry a tag
TagPositions(lines) == { k \in 1..Len(lines) : Matches(lines[k]) }

\* the register IDs a file's tags name
TagIds(lines) == { StrToInt(lines[k].reg) : k \in TagPositions(lines) }

\* the value the last tag for register r gives
TagValue(lines, r) ==
    LET at == { k \in TagPositions(lines) : StrToInt(lines[k].reg) = r }
        k  == CHOOSE x \in at : \A y \in at : y <= x
    IN  StrToInt(lines[k].val)

\* the main program reached its operation: every file is loaded
Operating == loaded # NoValues

\* the run ended while loading, before any operation
LoadFailed == pc = "failed" /\ ~Operating

\* the in-memory overwrites of Copy have been made
CopyDone == Operating /\ Mode(args) = "copy" /\ pc \in {"write", "done", "failed"}

---------------------------------------------------------------------------
(* C1: Copy changes only the selected registers.  After the overwrites,   *)
(* for every input bank B and every raw register r: if r is in the group  *)
(* and in the source then B[r] is the source's value, otherwise B's entry *)
(* for r (value or absence) is what it was after loading; and every file  *)
(* written holds exactly B's raw entries, ascending by ID.                *)
C1_CopyChangesOnlySelected ==
    CopyDone =>
        /\ \A n \in Range(args.files) :
             \A r \in { x \in (DOMAIN values[n]) \cup (DOMAIN loaded[n])
                               \cup (DOMAIN source) \cup Range(regs) : x < 1000 } :
               IF r \in Range(regs) /\ r \in DOMAIN source
               THEN r \in DOMAIN values[n] /\ values[n][r] = source[r]
               ELSE /\ r \in DOMAIN values[n] <=> r \in DOMAIN loaded[n]
                    /\ r \in DOMAIN values[n] => values[n][r] = loaded[n][r]
        /\ \A n \in Range(writes) :
             LET lines == disk[n]
                 tags  == SelectSeq(lines, Matches)
             IN  /\ \A k \in 1..Len(lines) :
                       lines[k].kind = "tag" => Matches(lines[k])
                 /\ \A k \in 1..(Len(tags) - 1) :
                       StrToInt(tags[k].reg) < StrToInt(tags[k + 1].reg)
                 /\ { <<StrToInt(tags[k].reg), IntV(StrToInt(tags[k].val))>> :
                        k \in 1..Len(tags) }
                    = { <<r, values[n][r]>> :
                        r \in DOMAIN RawPart(values[n]) }

\* a finished Copy that changed a register, left alone a selected register
\* the source lacks, and left alone an unselected register the source has
C1_Witness ==
    /\ CopyDone /\ pc = "done"
    /\ \E n \in Range(args.files) :
         /\ \E r \in DOMAIN RawPart(loaded[n]) :
              /\ r \in Range(regs) /\ r \in DOMAIN source
              /\ values[n][r] # loaded[n][r]
         /\ \E r \in DOMAIN RawPart(loaded[n]) :
              r \in Range(regs) /\ r \notin DOMAIN source
         /\ \E r \in DOMAIN RawPart(loaded[n]) :
              /\ r \notin Range(regs) /\ r \in DOMAIN source
              /\ source[r] # loaded[n][r]

---------------------------------------------------------------------------
(* C2: Copy leaves every derived register (ID >= 1000) of every input     *)
(* bank unchanged in memory, whatever the group, and no file written      *)
(* holds a derived ID.                                                    *)
C2_CopyLeavesDerivedAlone ==
    CopyDone =>
        /\ \A n \in Range(args.files) :
             /\ { r \in DOMAIN values[n] : r >= 1000 }
                = { r \in DOMAIN loaded[n] : r >= 1000 }
             /\ \A r \in DOMAIN loaded[n] :
                  r >= 1000 => values[n][r] = loaded[n][r]
        /\ \A n \in Range(writes) : \A r \in TagIds(disk[n]) : r < 1000

---------------------------------------------------------------------------
\* the positions in the input list of the banks that hold a register
HoldersOf(reg) ==
    { k \in 1..Len(args.files) : reg \in DOMAIN values[args.files[k]] }

DiffersAcrossBanks(reg) ==
    \E j, k \in HoldersOf(reg) :
        values[args.files[j]][reg] # values[args.files[k]][reg]

(* C3: Diff never fails on a register some bank lacks, and prints a row   *)
(* for a register of the group exactly when some bank contains it and the *)
(* banks that contain it do not all hold the same value.                  *)
C3_DiffSuppressesEqual ==
    (Operating /\ Mode(args) = "diff" /\ pc \in {"done", "failed"}) =>
        /\ err = ""
        /\ LET rows == SelectSeq(regs, DiffersAcrossBanks)
           IN  out = <<Banner("names")>> \o [k \in 1..Len(rows) |-> Row(rows[k])]

---------------------------------------------------------------------------
\* every bank a load has produced in this run
LoadedBanks ==
    { loaded[n] : n \in DOMAIN loaded }
    \cup (IF Operating THEN {} ELSE { values[n] : n \in DOMAIN values })
    \cup (IF source = EmptyBank THEN {} ELSE {source})

(* C4: writing a loaded bank and reading the file back gives the same raw *)
(* entries (IDs and values, negative ones too) and the same derived       *)
(* registers.                                                             *)
C4_WriteThenReadIsIdentity ==
    \A bank \in LoadedBanks :
        LET back == read_vbr("out.vbr", [n \in {"out.vbr"} |-> write_vbr(bank)])
        IN  /\ back.ok
            /\ RawPart(back.regs) = RawPart(bank)
            /\ \A d \in DerivedIds : back.regs[d] = bank[d]

\* a loaded bank with a negative register ID holding a negative value
C4_Witness ==
    \E bank \in LoadedBanks :
        \E r \in DOMAIN bank : r < 0 /\ bank[r].i < 0

---------------------------------------------------------------------------
(* C5: a bank that lacks a register derivation needs fails to load, and   *)
(* when the load fails the bank's map holds no derived register.          *)
C5_DerivationAllOrNothing ==
    /\ \A n \in DOMAIN values : RequiredIds \subseteq TagIds(disk0[n])
    /\ (LoadFailed /\ err = "KeyError") =>
          \A r \in DOMAIN vbr_regs : r < 1000

---------------------------------------------------------------------------
\* the text "<(v>>4)&15>.<v&15>.<p>"
VersionTriple(v, p) ==
    StrV(NatToStr((v \div 16) % 16) \o <<".">> \o NatToStr(v % 16)
         \o <<".">> \o (IF p < 0 THEN <<"-">> \o NatToStr(-p) ELSE NatToStr(p)))

\* the file the latest read_vbr call was given, as it was when read
LastFile == disk0[last_read]

(* C6, as stated: a file whose only tags are 109 = v and 499 = p loads    *)
(* and yields 1091 = "<(v>>4)&15>.<v&15>.<p>".                            *)
C6_VersionOnlyFileLoads ==
    (last_read \in DOMAIN disk0 /\ TagIds(LastFile) = {109, 499}) =>
        /\ ~LoadFailed
        /\ 1091 \in DOMAIN vbr_regs
        /\ vbr_regs[1091] =
              VersionTriple(TagValue(LastFile, 109), TagValue(LastFile, 499))

(* C6, amended: a file whose tags give 109 = v and 499 = p and also 233,  *)
(* 235 and 234 loads and yields 1091 = "<(v>>4)&15>.<v&15>.<p>", which is *)
(* "1.2.3" for v = 18 and p = 3; a file holding only 109 and 499 does not *)
(* load: derivation raises on register 233.                               *)
C6_VersionOfCompleteFile ==
    last_read \in DOMAIN disk0 =>
        /\ RequiredIds \subseteq TagIds(LastFile) =>
              /\ ~LoadFailed
              /\ 1091 \in DOMAIN vbr_regs
              /\ vbr_regs[1091] =
                    VersionTriple(TagValue(LastFile, 109),
                                  TagValue(LastFile, 499))
              /\ (TagValue(LastFile, 109) = 18 /\ TagValue(LastFile, 499) = 3)
                    => vbr_regs[1091].s = <<"1", ".", "2", ".", "3">>
        /\ TagIds(LastFile) = {109, 499} =>
              LoadFailed /\ err = "KeyError" /\ 2331 \notin DOMAIN vbr_regs

\* a complete file with 109 = 18 and 499 = 3 has been loaded
C6_Witness ==
    /\ last_read \in DOMAIN disk0
    /\ RequiredIds \subseteq TagIds(LastFile)
    /\ TagValue(LastFile, 109) = 18 /\ TagValue(LastFile, 499) = 3
    /\ ~LoadFailed
    /\ pc = "done"

---------------------------------------------------------------------------
IsPrefix(s, seq) == Len(s) <= Len(seq) /\ s = SubSeq(seq, 1, Len(s))

---------------------------------------------------------------------------
\* the mode flags given on the command line
ModeFlags ==
    (IF args.print THEN {"print"} ELSE {})
    \cup (IF args.diff THEN {"diff"} ELSE {})
    \cup (IF args.copy # NoFile THEN {"copy"} ELSE {})

Conflicting == Cardinality(args.sel) >= 2 \/ Cardinality(ModeFlags) >= 2

(* C8: a command line with two or more selection flags, or two or more    *)
(* of print, diff and copy, ends as a usage error before any file is read *)
(* or written.                                                            *)
C8_ConflictingFlagsRejected ==
    Conflicting =>
        /\ last_read = NoFile
        /\ writes = <<>>
        /\ DOMAIN values = {}
        /\ pc \notin {"read", "sort", "source", "select", "operate", "write"}

---------------------------------------------------------------------------
StrictlyAscending(seq) == \A k \in 1..(Len(seq) - 1) : seq[k] < seq[k + 1]

InputTagIds == UNION { TagIds(disk0[n]) : n \in Range(args.files) }

(* C9, as stated: the raw group is the ascending duplicate-free list of   *)
(* the register IDs tagged in any file loaded in the run: every input     *)
(* file and, in Copy mode, the source file.                               *)
C9_RawGroupOfAllLoadedFiles ==
    Operating =>
        /\ StrictlyAscending(raw_regs)
        /\ Range(raw_regs) =
              InputTagIds \cup (IF Mode(args) = "copy"
                                THEN TagIds(disk0[args.copy]) ELSE {})

(* C9, amended: the raw group is the ascending duplicate-free list of the *)
(* register IDs tagged in any input file; the copy source file adds none, *)
(* and neither does derivation.                                           *)
C9_RawGroupOfInputFiles ==
    (pc \notin {"start", "read", "sort"} /\ Range(args.files) = DOMAIN values) =>
        /\ StrictlyAscending(raw_regs)
        /\ Range(raw_regs) = InputTagIds
        /\ Operating /\ "raw" \in args.sel /\ "all" \notin args.sel
              => regs = raw_regs

\* Copy of the raw group from a source with a register no input file has
C9_Witness ==
    /\ Operating /\ Mode(args) = "copy" /\ pc = "done"
    /\ regs = raw_regs
    /\ \E r \in TagIds(disk0[args.copy]) : r \notin Range(raw_regs)
    /\ \E n \in DOMAIN values : \E r \in DerivedIds : r \notin Range(raw_regs)

---------------------------------------------------------------------------
\* the second run of a Copy command line has ended
SecondCopyDone == run = 2 /\ pc = "done" /\ CopyDone

(* C10, as stated: a second Copy with the same command line leaves every  *)
(* target bank, in memory and on disk, as the first Copy left it.         *)
C10_CopyTwiceSameMemoryAndDisk ==
    SecondCopyDone => disk = first.disk /\ values = first.values

(* C10, amended: a second Copy with the same command line leaves every    *)
(* target file on disk, and the raw registers (ID < 1000) of every target *)
(* bank in memory, as the first Copy left them, also when the source is   *)
(* one of the input files.                                                *)
C10_CopyTwiceSameDiskAndRaw ==
    SecondCopyDone =>
        /\ disk = first.disk
        /\ DOMAIN values = DOMAIN first.values
        /\ \A n \in DOMAIN values :
              RawPart(values[n]) = RawPart(first.values[n])

\* a second Copy that ended, whose first run changed a file, with the
\* source among the input files and another input file besides
C10_Witness ==
    /\ SecondCopyDone
    /\ args.copy \in Range(args.files)
    /\ first.disk # InitialDisk
    /\ \E n \in Range(args.files) :
          n # args.copy /\ TagIds(first.disk[n]) # TagIds(InitialDisk[n])

---------------------------------------------------------------------------
\* the codes a decoder has a label for
Enumeration(reg) ==
    CASE reg = 72   -> { 2, 3, 4, 5 }
      [] reg = 80   -> { -1, 2, 4, 5, 7, 8, 10 }
      [] reg = 219  -> { 0, 1, 2, 6, 7, 8, 9, 10, 11 }
      [] reg = 223  -> { 0, 1, 2 }
      [] reg = 2343 -> { 0, 1, 2, 3 }

InvalidMarkers == { "<invalid>", "<undef>", "<unknown>" }

\* a decoder has been called and has returned
Decoded == fmt_res.t # "nocall"

====
